---- MODULE Spec2Model ----
(***************************************************************************)
(* Model of mcp_akshare: the document-derived function registry            *)
(* (registry.py), the result formatter (formatters.py) and the ak_call     *)
(* tool handler (server.py).                                               *)
(*                                                                         *)
(* Python str values are TLA+ strings; Python dicts that keep insertion    *)
(* order are sequences of entries where the order is read by the code, and *)
(* functions otherwise.                                                    *)
(***************************************************************************)
EXTENDS Integers, Sequences, FiniteSets, TLC

VARIABLES
    docs,           \* the directory listing of docs_dir: files in os.listdir order
    dirExists,      \* os.path.isdir(docs_dir)
    functions,      \* DocRegistry.functions: insertion-ordered dict, as a sequence of FunctionInfo
    index,          \* DocRegistry._index: keyword -> list of full names
    initialized,    \* DocRegistry._initialized
    initCalls,      \* history: number of initialize() calls made
    parseRuns,      \* history: number of times _parse_all_docs was entered
    buildRuns,      \* history: number of times _build_index was entered
    first,          \* history: catalog and index as the first initialize() call left them
    lastInit,       \* history: how the last initialize() call ended
    hashOrder,      \* the order in which this process iterates a set of these strings
    serverModule,   \* the state of the import of mcp_akshare.server
    pc,             \* where each thread stands in an initialize() call it runs
    last            \* history: the last search, get_function, call, ak_call or
                    \* format_result call since the last initialize() call, its
                    \* arguments and how it ended

vars == <<docs, dirExists, hashOrder, functions, index, initialized, initCalls, parseRuns,
          buildRuns, first, lastInit, serverModule, pc, last>>

regVars == <<docs, dirExists, hashOrder, functions, index, initialized, initCalls, parseRuns,
             buildRuns, first, lastInit, pc>>

-----------------------------------------------------------------------------
(* Bounds of the model.                                                    *)

MaxFiles == 2       \* files in the documentation directory
MaxInitCalls == 3   \* initialize() calls in one run
MaxRows == 3        \* rows of a tabular value, elements of a series
MaxItems == 2       \* elements of a list result
MaxThreads == 2     \* threads that call initialize() concurrently

-----------------------------------------------------------------------------
(* Python str operations.                                                  *)

\* str.startswith
StartsWith(s, p) == Len(s) >= Len(p) /\ SubSeq(s, 1, Len(p)) = p

\* str.endswith
EndsWith(s, p) == Len(s) >= Len(p) /\ SubSeq(s, Len(s) - Len(p) + 1, Len(s)) = p

\* the `in` operator on two str values: p occurs in s
Contains(s, p) ==
    \E i \in 1..(Len(s) - Len(p) + 1) : SubSeq(s, i, i + Len(p) - 1) = p

\* str.lower on one character of the model's alphabet
LowerChar(c) ==
    CASE c = "S" -> "s"
      [] c = "Z" -> "z"
      [] c = "X" -> "x"
      [] c = "T" -> "t"
      [] OTHER -> c

RECURSIVE Lower(_)
\* str.lower
Lower(s) == IF s = "" THEN "" ELSE LowerChar(SubSeq(s, 1, 1)) \o Lower(Tail(s))

\* the characters str.split() and str.strip() take for whitespace
IsSpace(c) == c = " "

\* the characters the regular expression class \w matches
IsWordChar(c) == ~IsSpace(c) /\ c # "," /\ c # "."

RECURSIVE Runs(_, _, _)
\* the maximal runs of kept characters of s, left to right; cur is the run being
\* read. words = TRUE keeps the \w characters, FALSE the non-whitespace ones.
Runs(s, cur, words) ==
    IF s = "" THEN (IF cur = "" THEN <<>> ELSE <<cur>>)
    ELSE LET c == SubSeq(s, 1, 1)
             keep == IF words THEN IsWordChar(c) ELSE ~IsSpace(c)
         IN  IF keep THEN Runs(Tail(s), cur \o c, words)
             ELSE (IF cur = "" THEN <<>> ELSE <<cur>>) \o Runs(Tail(s), "", words)

\* str.split() with no argument: the whitespace-separated words (which is also
\* what it gives after str.strip())
Split(s) == Runs(s, "", FALSE)

\* re.findall(r"[\w]+", s)
FindWords(s) == Runs(s, "", TRUE)

\* list[:limit] of Python, a negative limit counting from the end
Slice(seq, limit) ==
    IF limit >= 0 THEN SubSeq(seq, 1, IF limit < Len(seq) THEN limit ELSE Len(seq))
    ELSE SubSeq(seq, 1, Len(seq) + limit)

Range(seq) == {seq[i] : i \in DOMAIN seq}

-----------------------------------------------------------------------------
(* The documentation directory.                                            *)

\* One interface block as re.findall returns it and the three searches of the
\* loop body read it: the \w+ name after the marker, the stripped text of the
\* description line ("" when there is none) and the names of the rows of the
\* input parameter table that match the parameter pattern.
Block(name, description, params) ==
    [name |-> name, description |-> description, params |-> params]

\* The contents a document has in the model: the blocks of the file in order.
Contents ==
    { <<>>,
      <<Block("x", "", <<>>), Block("st_x", "Zh data", <<"s">>)>>,
      <<Block("zh_x", "st,fu", <<"date">>)>>,
      <<Block("x", "data of X", <<>>)>> }

FileNames == {"st.md", "st_zh.md", "st.txt"}

\* A file of the directory: its name, whether open() succeeds on it, and its
\* blocks. The blocks of a file that cannot be opened are never read.
Files ==
    [filename : {"st.md", "st_zh.md"}, readable : {TRUE}, blocks : Contents]
    \cup [filename : {"st.txt"}, readable : {TRUE},
          blocks : {<<Block("x", "data of X", <<>>)>>}]
    \cup [filename : {"st.md", "st_zh.md"}, readable : {FALSE}, blocks : {<<>>}]

RECURSIVE Listings(_)
\* the directory listings of at most n files with distinct names, in any order
Listings(n) ==
    IF n = 0 THEN {<<>>}
    ELSE LET shorter == Listings(n - 1) IN
         shorter \cup
         { Append(l, f) : l \in {s \in shorter : Len(s) = n - 1},
                          f \in Files }

DistinctNames(l) ==
    \A i, j \in DOMAIN l : i # j => l[i].filename # l[j].filename

-----------------------------------------------------------------------------
(* DocRegistry: parsing.                                                   *)

\* FullName without the test for a name that already carries its category
FullName_AlwaysPrefixed(category, func_name) ==
    "ak_" \o category \o "_" \o func_name

\* _parse_doc_file, lines 113-118: the canonical id (full_name) of a block
FullName(category, func_name) ==
    IF StartsWith(func_name, category \o "_")
    THEN "ak_" \o func_name
    ELSE "ak_" \o category \o "_" \o func_name

\* FunctionInfo(...) as _parse_doc_file builds it
FunctionInfo(block, category, filepath) ==
    [name |-> block.name,
     full_name |-> FullName(category, block.name),
     category |-> category,
     description |-> block.description,
     params |-> block.params,
     doc_path |-> filepath]

\* self.functions[full_name] = info on an insertion-ordered dict: a key that is
\* present keeps its place and takes the new value
DictPut(fs, info) ==
    IF \E i \in DOMAIN fs : fs[i].full_name = info.full_name
    THEN [i \in DOMAIN fs |->
            IF fs[i].full_name = info.full_name THEN info ELSE fs[i]]
    ELSE Append(fs, info)

RECURSIVE PutBlocks(_, _, _, _)
PutBlocks(fs, blocks, category, filepath) ==
    IF blocks = <<>> THEN fs
    ELSE PutBlocks(DictPut(fs, FunctionInfo(Head(blocks), category, filepath)),
                   Tail(blocks), category, filepath)

\* _parse_doc_file on a file open() succeeds on: one record per block, stored
\* under its full name
parse_doc_file(fs, file, category) ==
    PutBlocks(fs, file.blocks, category, file.filename)

RECURSIVE parse_all_docs(_, _, _)
\* _parse_all_docs: the catalog after the loop over the listing, and whether an
\* open() raised (the exception leaves the loop and the method: the files
\* after it are not parsed)
parse_all_docs(fs, exists, listing) ==
    IF ~exists \/ listing = <<>> THEN [functions |-> fs, raised |-> FALSE]
    ELSE LET file == Head(listing) IN
         IF ~EndsWith(file.filename, ".md")
         THEN parse_all_docs(fs, exists, Tail(listing))
         ELSE IF ~file.readable
         THEN [functions |-> fs, raised |-> TRUE]
         ELSE parse_all_docs(
                  parse_doc_file(fs, file,
                                 SubSeq(file.filename, 1, Len(file.filename) - 3)),
                  exists, Tail(listing))

-----------------------------------------------------------------------------
(* DocRegistry: the search index.                                          *)

\* the keywords _build_index collects for one record, in order
Keywords(info) ==
    <<info.category, info.name>>
    \o (IF info.description # "" THEN FindWords(info.description) ELSE <<>>)
    \o info.params

\* the body of the loop over keywords
IndexAdd(idx, keyword, full_name) ==
    LET kw == Lower(keyword) IN
    IF kw \notin DOMAIN idx THEN (kw :> <<full_name>>) @@ idx
    ELSE IF full_name \in Range(idx[kw]) THEN idx
    ELSE [idx EXCEPT ![kw] = Append(@, full_name)]

RECURSIVE IndexAddAll(_, _, _)
IndexAddAll(idx, kws, full_name) ==
    IF kws = <<>> THEN idx
    ELSE IndexAddAll(IndexAdd(idx, Head(kws), full_name), Tail(kws), full_name)

RECURSIVE build_index(_, _)
\* _build_index: adds the keywords of every record of the catalog, in the
\* catalog's order, to the index it finds
build_index(idx, fs) ==
    IF fs = <<>> THEN idx
    ELSE build_index(IndexAddAll(idx, Keywords(Head(fs)), Head(fs).full_name),
                     Tail(fs))

\* the empty dict
EmptyDict == [k \in {} |-> <<>>]

-----------------------------------------------------------------------------
(* DocRegistry: search and lookup.                                         *)

\* dict.get on the catalog: the record stored under full_name, or None
None == [t |-> "none"]

Has(fs, full_name) == \E i \in DOMAIN fs : fs[i].full_name = full_name

Get(fs, full_name) ==
    IF Has(fs, full_name)
    THEN fs[CHOOSE i \in DOMAIN fs : fs[i].full_name = full_name]
    ELSE None

\* FunctionInfo.to_search_result
to_search_result(info) ==
    [name |-> IF StartsWith(info.full_name, "ak_")
              THEN SubSeq(info.full_name, 4, Len(info.full_name))
              ELSE info.full_name,
     description |-> info.description,
     category |-> info.category,
     params |-> info.params,
     full_name |-> info.full_name]

\* word_results of one query word: the exact match and the containment scan
WordResults(idx, word) ==
    (IF word \in DOMAIN idx THEN Range(idx[word]) ELSE {})
    \cup UNION { Range(idx[kw]) :
                 kw \in {k \in DOMAIN idx : Contains(k, word) \/ Contains(word, k)} }

\* all_matches: for every function some word matched, the number of words
\* that matched it
AllMatches(idx, words) ==
    LET funcs == UNION { WordResults(idx, words[i]) : i \in DOMAIN words } IN
    [f \in funcs |-> Cardinality({i \in DOMAIN words : f \in WordResults(idx, words[i])})]

\* Results with the test match_count == len(words) weakened to "some word
\* matched"
Results_AnyWord(idx, keyword) ==
    DOMAIN AllMatches(idx, Split(Lower(keyword)))

\* the set `results` of search before it is cut to limit
Results(idx, keyword) ==
    LET words == Split(Lower(keyword))
        all_matches == AllMatches(idx, words)
    IN  {f \in DOMAIN all_matches : all_matches[f] = Len(words)}

\* the sequences that hold every element of S once
Orders(S) ==
    {o \in [1..Cardinality(S) -> S] : \A i, j \in DOMAIN o : i # j => o[i] # o[j]}

\* list(s) of a set of str: its elements in the iteration order of the set,
\* which follows the hashes the process gives the strings, not the code
ListOfSet(S, order) ==
    LET member(x) == x \in S IN SelectSeq(order, member)

RECURSIVE Render(_, _)
\* the loop that builds `output` from the names kept
Render(fs, names) ==
    IF names = <<>> THEN <<>>
    ELSE (IF Has(fs, Head(names)) THEN <<to_search_result(Get(fs, Head(names)))>>
          ELSE <<>>)
         \o Render(fs, Tail(names))

\* the value search(keyword, limit) returns
SearchOutput(fs, idx, order, keyword, limit) ==
    Render(fs, Slice(ListOfSet(Results(idx, keyword), order), limit))

-----------------------------------------------------------------------------
(* Python values, as far as format_result tells them apart.                *)
(*                                                                         *)
(*   [t |-> "none"]                        None                            *)
(*   [t |-> k] for k in ScalarKinds        a scalar                        *)
(*   [t |-> "str", v |-> s]                a str whose text matters        *)
(*   [t |-> "int", v |-> n]                an int whose value matters      *)
(*   [t |-> "df", dtype, cells]            a DataFrame of one column "c"   *)
(*   [t |-> "series", cells]               a Series                        *)
(*   [t |-> "list", items]                 a list                          *)
(*   [t |-> "dict", m]                     a dict, m its keys to values    *)
(*   [t |-> "raise", exc]                  the call raised instead         *)

\* num: int or float; nan: float('nan'); date: datetime.date or
\* datetime.datetime; ts: pandas.Timestamp
ScalarKinds == {"num", "text", "bool", "nan", "date", "ts"}

Scalar(k) == [t |-> k]

PyStr(s) == [t |-> "str", v |-> s]

PyInt(n) == [t |-> "int", v |-> n]

List(items) == [t |-> "list", items |-> items]

Dict(m) == [t |-> "dict", m |-> m]

Raise(exc) == [t |-> "raise", exc |-> exc]

\* the cells a column of each dtype holds: none is None, nat is pandas.NaT,
\* datestr a str that parses as a date, text a str that does not
CellsOf(dtype) ==
    CASE dtype = "float64" -> {"num", "nan"}
      [] dtype = "object" -> {"text", "datestr", "date", "none"}
      [] dtype = "datetime64" -> {"ts", "nat"}

Dtypes == {"float64", "object", "datetime64"}

DataFrame(dtype, cells) == [t |-> "df", dtype |-> dtype, cells |-> cells]

RECURSIVE SeqsUpTo(_, _)
\* the sequences of at most n elements of S
SeqsUpTo(S, n) ==
    IF n = 0 THEN {<<>>}
    ELSE LET shorter == SeqsUpTo(S, n - 1) IN
         shorter \cup {Append(q, x) : q \in {r \in shorter : Len(r) = n - 1}, x \in S}

-----------------------------------------------------------------------------
(* formatters.py                                                           *)

\* pandas.isna on a cell
IsNa(cell) == cell \in {"nan", "none", "nat"}

\* pd.to_datetime(column, errors="coerce") on one cell of an object column
ToDatetime(cell) ==
    IF cell \in {"datestr", "date", "ts"} THEN "ts" ELSE "nat"

\* lines 50-59: the column after the date detection loop
ConvertColumn(dtype, cells) ==
    IF dtype = "object" /\ \E i \in DOMAIN cells : ~IsNa(cells[i])
    THEN [i \in DOMAIN cells |-> ToDatetime(cells[i])]
    ELSE cells

\* lines 65-70: the value a record holds for a cell after the loop over the
\* records (pandas.NaT is an instance of datetime, so str() takes it)
FormatCell(cell) ==
    CASE cell \in {"ts", "date", "nat"} -> Scalar("text")
      [] IsNa(cell) -> Scalar("null")
      [] cell = "num" -> Scalar("num")
      [] OTHER -> Scalar("text")

\* _format_dataframe
format_dataframe(df, max_rows) ==
    LET truncated == Len(df.cells) > max_rows
        head == IF truncated THEN Slice(df.cells, max_rows) ELSE df.cells
        column == ConvertColumn(df.dtype, head)
        data == [i \in DOMAIN column |-> Dict("c" :> FormatCell(column[i]))]
    IN  IF truncated
        THEN Dict(("data" :> List(data)) @@ ("warning" :> Scalar("text"))
                  @@ ("total_rows" :> PyInt(Len(head))))
        ELSE Dict("data" :> List(data))

IsRaise(v) == v.t = "raise"

\* the list of the formatted tables of lines 88-91; a member that is no
\* DataFrame makes _format_dataframe raise
FormatTables(items, max_rows) ==
    IF \E i \in DOMAIN items : items[i].t # "df"
    THEN Raise("AttributeError")
    ELSE List([i \in DOMAIN items |-> format_dataframe(items[i], max_rows)])

\* _format_list
format_list(items, max_rows) ==
    IF items = <<>> THEN Dict("data" :> List(<<>>))
    ELSE IF items[1].t = "df"
    THEN LET result == FormatTables(Slice(items, max_rows), max_rows) IN
         IF IsRaise(result) THEN result
         ELSE IF Len(items) > max_rows
         THEN Dict(("data" :> result) @@ ("warning" :> Scalar("text")))
         ELSE Dict("data" :> result)
    ELSE Dict("data" :> List(items))

RECURSIVE format_result(_, _)
RECURSIVE format_dict(_, _)

\* _format_dict
format_dict(data, max_rows) ==
    LET value(k) ==
            IF data.m[k].t = "df" THEN format_dataframe(data.m[k], max_rows)
            ELSE IF data.m[k].t \in {"list", "dict"} THEN format_result(data.m[k], max_rows)
            ELSE data.m[k]
    IN  IF \E k \in DOMAIN data.m : IsRaise(value(k))
        THEN Raise("AttributeError")
        ELSE Dict([k \in DOMAIN data.m |-> value(k)])

\* format_result
format_result(result, max_rows) ==
    IF result.t = "none" THEN Dict("message" :> Scalar("text"))
    ELSE IF result.t = "dict" /\ "error" \in DOMAIN result.m THEN result
    ELSE IF result.t = "df" THEN format_dataframe(result, max_rows)
    ELSE IF result.t = "series"
    THEN Dict([i \in DOMAIN result.cells |-> Scalar(result.cells[i])])
    ELSE IF result.t = "list" THEN format_list(result.items, max_rows)
    ELSE IF result.t = "dict" THEN format_dict(result, max_rows)
    ELSE result

RECURSIVE Leaves(_)
\* the values at the leaves of a value: everything that is no list and no dict
Leaves(v) ==
    IF v.t = "list" THEN UNION {Leaves(v.items[i]) : i \in DOMAIN v.items}
    ELSE IF v.t = "dict" THEN UNION {Leaves(v.m[k]) : k \in DOMAIN v.m}
    ELSE {v}

-----------------------------------------------------------------------------
(* DocRegistry.call and the provider namespace.                            *)

\* What the akshare module does for one call: it has no attribute of the bare
\* name, or the attribute is a callable that returns a value or raises an
\* Exception with a message.
Absent == [kind |-> "absent"]

Returns(v) == [kind |-> "returns", value |-> v]

Raises(msg) == [kind |-> "raises", msg |-> msg]

\* str(e) of the ValueError of line 206
NotFoundMessage(func_name) == "function not found: " \o func_name

\* DocRegistry.call(func_name, params): the value it returns, or Raise with
\* the exception that leaves it. paramsIsMapping: params is a dict.
call(fs, func_name, paramsIsMapping, provider) ==
    LET info == IF Has(fs, func_name) THEN Get(fs, func_name)
                ELSE IF Has(fs, "ak_" \o func_name) THEN Get(fs, "ak_" \o func_name)
                ELSE None
    IN  IF info = None
        THEN [t |-> "raise", exc |-> "ValueError", msg |-> NotFoundMessage(func_name)]
        ELSE IF provider.kind = "absent"
        THEN Dict("error" :> PyStr("no such function: " \o info.name))
        ELSE IF ~paramsIsMapping
        THEN Dict("error" :> PyStr("argument after ** must be a mapping"))
        ELSE IF provider.kind = "raises"
        THEN Dict("error" :> PyStr(provider.msg))
        ELSE provider.value

-----------------------------------------------------------------------------
(* server.py                                                               *)

\* the names registry.py binds at module level
RegistryNames ==
    {"os", "re", "dataclass", "Any", "Dict", "List", "Optional", "ak",
     "FunctionInfo", "DocRegistry", "_get_default_docs_dir", "registry"}

\* the names line 16 imports from .registry
ImportedNames ==
    {"DocRegistry", "FunctionNotFoundError", "ParameterError", "AkshareError"}

\* the names server.py binds at module level once its imports succeed
ServerNames ==
    {"argparse", "asyncio", "json", "os", "logging", "datetime",
     "RotatingFileHandler", "pd", "FastMCP", "format_result",
     "format_search_results", "PROJECT_ROOT", "LOG_DIR", "log_file",
     "rotating_handler", "root_logger", "logger", "mcp", "docs_dir", "registry",
     "ak_search", "ak_call", "ak_logs", "main"} \cup ImportedNames

\* the default of the max_rows parameter of format_result
DefaultMaxRows == 100

\* the "type" the except clauses of lines 130-145 give an exception of a class
ErrorType(exc) ==
    CASE exc = "FunctionNotFoundError" -> "FunctionNotFound"
      [] exc = "ParameterError" -> "ParameterError"
      [] exc = "AkshareError" -> "AkshareError"
      [] OTHER -> "UnknownError"

\* json.dumps raises TypeError on these
Unserializable(v) == v.t \in {"date", "ts", "nat", "df", "series"}

\* the params strings ak_call is given: a JSON object, JSON of another shape,
\* a blank string, and text that is no JSON
ParamsKinds == {"object", "other", "blank", "malformed"}

\* ak_call(function, params): the text it returns, or the exception that
\* leaves it. dispatched: registry.call was reached.
ak_call_result(fs, function, paramsKind, provider) ==
    IF paramsKind = "malformed"
    THEN \* the except clause of line 120 calls log_call
         IF "log_call" \in ServerNames
         THEN [kind |-> "text", dispatched |-> FALSE, body |-> PyStr("params parse error")]
         ELSE [kind |-> "fault", dispatched |-> FALSE, exc |-> "NameError"]
    ELSE
    LET out == call(fs, function, paramsKind # "other", provider)
        result == IF IsRaise(out)
                  THEN Dict(("error" :> PyStr(out.msg))
                            @@ ("type" :> PyStr(ErrorType(out.exc))))
                  ELSE out
        formatted == format_result(result, DefaultMaxRows)
    IN  IF IsRaise(formatted)
        THEN [kind |-> "fault", dispatched |-> TRUE, exc |-> formatted.exc]
        ELSE IF \E v \in Leaves(formatted) : Unserializable(v)
        THEN [kind |-> "fault", dispatched |-> TRUE, exc |-> "TypeError"]
        ELSE [kind |-> "text", dispatched |-> TRUE, body |-> formatted]

-----------------------------------------------------------------------------
(* The registry as a state machine.                                        *)

\* the (category, bare name) pairs of the blocks of the .md files of a listing
ParsedPairs(listing) ==
    UNION { { <<SubSeq(listing[i].filename, 1, Len(listing[i].filename) - 3),
                listing[i].blocks[j].name>> : j \in DOMAIN listing[i].blocks } :
            i \in {k \in DOMAIN listing : EndsWith(listing[k].filename, ".md")} }

\* the full names the documents of a listing can put in the catalog
PossibleNames(listing) ==
    {FullName(p[1], p[2]) : p \in ParsedPairs(listing)}

NoCall == [op |-> "none"]

\* DocRegistry.__init__ on a documentation directory in any state
InitRegistry ==
    /\ dirExists \in BOOLEAN
    /\ docs \in {l \in Listings(MaxFiles) : DistinctNames(l)}
    /\ (~dirExists => docs = <<>>)
    /\ hashOrder \in Orders(PossibleNames(docs))
    /\ functions = <<>>
    /\ index = EmptyDict
    /\ initialized = FALSE
    /\ initCalls = 0
    /\ parseRuns = 0
    /\ buildRuns = 0
    /\ first = NoCall
    /\ lastInit = "none"

\* the threads that share the registry
Threads == 1..MaxThreads

InitOthers ==
    /\ serverModule = "unloaded"
    /\ pc = [t \in Threads |-> "idle"]
    /\ last = NoCall

\* DocRegistry.initialize, the whole call: the early return, or the parse and,
\* unless an open() raised out of it, the index build and the flag
initialize ==
    /\ initCalls < MaxInitCalls
    /\ initCalls' = initCalls + 1
    /\ IF initialized
       THEN /\ lastInit' = "returned early"
            /\ UNCHANGED <<functions, index, initialized, parseRuns, buildRuns>>
       ELSE LET parsed == parse_all_docs(functions, dirExists, docs) IN
            /\ parseRuns' = parseRuns + 1
            /\ functions' = parsed.functions
            /\ IF parsed.raised
               THEN /\ lastInit' = "raised"
                    /\ UNCHANGED <<index, initialized, buildRuns>>
               ELSE /\ lastInit' = "built"
                    /\ buildRuns' = buildRuns + 1
                    /\ index' = build_index(index, parsed.functions)
                    /\ initialized' = TRUE
    /\ first' = IF initCalls = 0
                THEN [op |-> "initialize", functions |-> functions', index |-> index']
                ELSE first
    /\ last' = NoCall
    /\ UNCHANGED <<docs, dirExists, hashOrder, serverModule, pc>>

\* the queries and limits search is called with
Queries == {"", "x", "data", "x of", "data x", " Zh  ST "}

Limits == {-1, 1, 20}

\* DocRegistry.search(keyword, limit)
search ==
    \E keyword \in Queries, limit \in Limits :
        /\ last' = [op |-> "search", keyword |-> keyword, limit |-> limit,
                    output |-> SearchOutput(functions, index, hashOrder, keyword, limit)]
        /\ UNCHANGED <<regVars, serverModule>>

\* the identifiers get_function and call are given
FuncRefs == {"ak_st_x", "st_x", "ak_st_zh_x", "st_zh_x", "x", "nosuch"}

\* DocRegistry.get_function(full_name)
get_function ==
    \E full_name \in FuncRefs :
        /\ last' = [op |-> "get_function", full_name |-> full_name,
                    info |-> Get(functions, full_name)]
        /\ UNCHANGED <<regVars, serverModule>>

\* the values the provider returns in the model
ProviderValues ==
    { None,
      DataFrame("float64", <<"num", "nan">>),
      DataFrame("object", <<"datestr", "text">>),
      [t |-> "series", cells |-> <<"num", "ts">>],
      List(<<Scalar("num"), Scalar("date")>>),
      List(<<DataFrame("float64", <<"num">>), Scalar("num")>>),
      Dict("a" :> Scalar("nan")),
      Scalar("text") }

\* the messages of the exceptions the provider raises in the model
Messages == {"timeout", "bad symbol"}

Providers ==
    {Absent} \cup {Returns(v) : v \in ProviderValues} \cup {Raises(m) : m \in Messages}

\* DocRegistry.call(func_name, params) with a dict for params, on a registry
\* that initialize() has built
registry_call ==
    /\ initialized
    /\ \E func_name \in FuncRefs, provider \in Providers :
          last' = [op |-> "call", func_name |-> func_name, provider |-> provider,
                   out |-> call(functions, func_name, TRUE, provider)]
    /\ UNCHANGED <<regVars, serverModule>>

\* line 16 of server.py: the import raises ImportError unless registry.py
\* binds every name it asks for
import_server ==
    /\ serverModule = "unloaded"
    /\ serverModule' = IF ImportedNames \subseteq RegistryNames
                       THEN "loaded" ELSE "ImportError"
    /\ UNCHANGED <<regVars, last>>

\* ak_call(function, params): the body of the tool handler, on the registry
\* line 56 has initialized
ak_call ==
    /\ initialized
    /\ \E function \in FuncRefs, paramsKind \in ParamsKinds, provider \in Providers :
          last' = [op |-> "ak_call", function |-> function, params |-> paramsKind,
                   provider |-> provider,
                   response |-> ak_call_result(functions, function, paramsKind, provider)]
    /\ UNCHANGED <<regVars, serverModule>>

\* the values format_result is given in the model
Tables ==
    UNION { {DataFrame(d, c) : c \in SeqsUpTo(CellsOf(d), MaxRows)} : d \in Dtypes }

SmallValues ==
    {None} \cup {Scalar(k) : k \in ScalarKinds}
    \cup {DataFrame("float64", <<>>), DataFrame("float64", <<"num", "nan">>),
          DataFrame("object", <<"date", "text">>)}

FormatInputs ==
    SmallValues
    \cup Tables
    \cup {[t |-> "series", cells |-> c] : c \in SeqsUpTo({"num", "nan", "ts"}, MaxRows)}
    \cup {List(items) : items \in SeqsUpTo(SmallValues, MaxItems)}
    \cup {Dict(m) : m \in UNION {[K -> SmallValues \cup {List(<<Scalar("date")>>),
                                                        Dict("b" :> Scalar("ts"))}] :
                                K \in SUBSET {"error", "a"}}}

\* format_result(result, max_rows)
format_result_call ==
    /\ \E result \in FormatInputs, max_rows \in 0..(MaxRows + 1) :
          last' = [op |-> "format_result", result |-> result, max_rows |-> max_rows,
                   out |-> format_result(result, max_rows)]
    /\ UNCHANGED <<regVars, serverModule>>

\* DocRegistry.initialize run by several threads, one statement at a time.
\* Nothing in initialize holds a lock, so a thread can be preempted between
\* any two of its statements; _parse_all_docs and _build_index are each taken
\* as one step here.

envVars == <<docs, dirExists, hashOrder, serverModule, first, last>>

\* line 50: the test of self._initialized, and the return of line 51
init_check(t) ==
    /\ pc[t] = "idle"
    /\ initCalls' = initCalls + 1
    /\ pc' = [pc EXCEPT ![t] = IF initialized THEN "returned" ELSE "parse"]
    /\ lastInit' = IF initialized THEN "returned early" ELSE lastInit
    /\ UNCHANGED <<functions, index, initialized, parseRuns, buildRuns, envVars>>

\* line 54: self._parse_all_docs(), which an open() can raise out of
init_parse(t) ==
    /\ pc[t] = "parse"
    /\ LET parsed == parse_all_docs(functions, dirExists, docs) IN
       /\ parseRuns' = parseRuns + 1
       /\ functions' = parsed.functions
       /\ pc' = [pc EXCEPT ![t] = IF parsed.raised THEN "raised" ELSE "build"]
       /\ lastInit' = IF parsed.raised THEN "raised" ELSE lastInit
    /\ UNCHANGED <<index, initialized, initCalls, buildRuns, envVars>>

\* line 55: self._build_index()
init_build(t) ==
    /\ pc[t] = "build"
    /\ buildRuns' = buildRuns + 1
    /\ index' = build_index(index, functions)
    /\ pc' = [pc EXCEPT ![t] = "flag"]
    /\ UNCHANGED <<functions, initialized, initCalls, parseRuns, lastInit, envVars>>

\* line 57: self._initialized = True
init_flag(t) ==
    /\ pc[t] = "flag"
    /\ initialized' = TRUE
    /\ lastInit' = "built"
    /\ pc' = [pc EXCEPT ![t] = "returned"]
    /\ UNCHANGED <<functions, index, initCalls, parseRuns, buildRuns, envVars>>

Init == InitRegistry /\ InitOthers

Next == initialize \/ search \/ get_function

\* the registry: initialize, search and get_function over every documentation
\* directory of the model
Spec == Init /\ [][Next]_vars

InitCall == Init /\ dirExists /\ Len(docs) <= 1

NextCall == initialize \/ registry_call \/ import_server \/ ak_call

\* the dispatcher: initialize, call and ak_call over the directories of one file
SpecCall == InitCall /\ [][NextCall]_vars

InitFormat == Init /\ dirExists /\ docs = <<>>

NextFormat == format_result_call

\* the formatter, applied to every value of the model
SpecFormat == InitFormat /\ [][NextFormat]_vars

NextConcurrent ==
    \E t \in Threads : init_check(t) \/ init_parse(t) \/ init_build(t) \/ init_flag(t)

\* initialize() called once by each thread, the calls interleaved
SpecConcurrent == Init /\ [][NextConcurrent]_vars

-----------------------------------------------------------------------------
(* Properties of the dispatcher and of the formatter.                      *)

\* function resolves to a catalog entry, as given or with "ak_" prepended
Resolves(function) ==
    Has(functions, function) \/ Has(functions, "ak_" \o function)

\* the response is the text of a dict with these keys set to these strings
HasKey(value, key) == value.t = "dict" /\ key \in DOMAIN value.m

\* C1 (as claimed): an ak_call that reaches DocRegistry.call with a function
\* reference that resolves to no catalog entry, neither as given nor with
\* "ak_" prepended, ends in a response of error type FunctionNotFound.
C1_Original ==
    (last.op = "ak_call" /\ last.response.dispatched /\ ~Resolves(last.function)) =>
        /\ last.response.kind = "text"
        /\ HasKey(last.response.body, "type")
        /\ last.response.body.m["type"] = PyStr("FunctionNotFound")

\* C2 (as claimed): when the provider callable of a resolved function raises,
\* call does not propagate the exception and what it yields carries the
\* original message and the function id.
C2_Original ==
    (last.op = "call" /\ Resolves(last.func_name) /\ last.provider.kind = "raises") =>
        /\ ~IsRaise(last.out)
        /\ HasKey(last.out, "error")
        /\ last.out.m["error"] = PyStr(last.provider.msg)
        /\ HasKey(last.out, "function")

\* C3 (as claimed): a tabular value of n rows normalizes to min(n, maxRows)
\* records; when n > maxRows the result carries warning and total_rows = n,
\* and when n <= maxRows it carries neither.
C3_Original ==
    (last.op = "format_result" /\ last.result.t = "df") =>
        LET n == Len(last.result.cells)
            out == last.out.m
        IN  /\ Len(out["data"].items) = (IF n < last.max_rows THEN n ELSE last.max_rows)
            /\ n > last.max_rows =>
                  /\ "warning" \in DOMAIN out
                  /\ "total_rows" \in DOMAIN out
                  /\ out["total_rows"] = PyInt(n)
            /\ n <= last.max_rows =>
                  /\ "warning" \notin DOMAIN out
                  /\ "total_rows" \notin DOMAIN out

\* C4 (as claimed): every ak_call, whatever the function reference and the
\* params string, returns a response text; none ends in an exception that
\* leaves the handler.
C4_Original ==
    last.op = "ak_call" => last.response.kind = "text"

\* C5 (as claimed): no leaf of what format_result returns is a native
\* date/time object, a NaN or an unconverted tabular value.
C5_Original ==
    (last.op = "format_result" /\ ~IsRaise(last.out)) =>
        \A leaf \in Leaves(last.out) :
            leaf.t \notin {"date", "ts", "nat", "nan", "df", "series"}

-----------------------------------------------------------------------------
(* Properties of the registry.                                             *)

\* C6 (as claimed): any two parsed records that differ in category or in bare
\* name receive different canonical ids, so that after a completed initialize
\* the catalog holds one entry for every parsed (category, bare name) pair.
C6_Original ==
    lastInit = "built" =>
        /\ \A p, q \in ParsedPairs(docs) :
              p # q => FullName(p[1], p[2]) # FullName(q[1], q[2])
        /\ Len(functions) = Cardinality(ParsedPairs(docs))

\* the canonical-id rule as the claim words it
C7_Rule(category, bareName) ==
    IF StartsWith(bareName, category \o "_")
    THEN "ak_" \o bareName
    ELSE "ak_" \o category \o "_" \o bareName

\* C7: every catalog entry is stored under the canonical id that the rule gives
\* for its own category and bare name, the lookup of that id returns an entry
\* with exactly that category and name, and so does every get_function call
\* that finds an entry.
C7_StoredUnderCanonicalId ==
    /\ \A i \in DOMAIN functions :
          LET e == functions[i]
              id == C7_Rule(e.category, e.name)
          IN  /\ e.full_name = id
              /\ Get(functions, id) # None
              /\ Get(functions, id).category = e.category
              /\ Get(functions, id).name = e.name
    /\ (last.op = "get_function" /\ last.info # None) =>
          last.full_name = C7_Rule(last.info.category, last.info.name)

\* C7 witness: after initialize, get_function has returned an entry whose bare
\* name already carries its category, and the catalog also holds an entry
\* whose name does not.
C7_Witness ==
    /\ initialized
    /\ last.op = "get_function"
    /\ last.info # None
    /\ StartsWith(last.info.name, last.info.category \o "_")
    /\ \E i \in DOMAIN functions :
          ~StartsWith(functions[i].name, functions[i].category \o "_")

\* the indexed keywords of a catalog entry, lowercased
C8_KeywordsOf(e) ==
    { Lower(k) : k \in {e.category, e.name} \cup Range(FindWords(e.description))
                        \cup Range(e.params) }

\* token t matches keyword k: equal, contained in it, or containing it
C8_Matches(t, k) == t = k \/ Contains(k, t) \/ Contains(t, k)

\* C8: search is token-AND: every record search returns has, for every
\* whitespace-separated token of the lowercased query, at least one indexed
\* keyword that equals the token, contains it or is contained in it.
C8_TokenAnd ==
    last.op = "search" =>
        \A i \in DOMAIN last.output :
            LET e == Get(functions, last.output[i].full_name)
                tokens == Split(Lower(last.keyword))
            IN  /\ e # None
                /\ \A j \in DOMAIN tokens :
                      \E k \in C8_KeywordsOf(e) : C8_Matches(tokens[j], k)

\* C8 witness: a two-token search returned a record while the catalog holds a
\* record that matches one of the two tokens only.
C8_Witness ==
    /\ last.op = "search"
    /\ Len(Split(Lower(last.keyword))) = 2
    /\ last.output # <<>>
    /\ \E i \in DOMAIN functions :
          LET tokens == Split(Lower(last.keyword))
              hit(t) == \E k \in C8_KeywordsOf(functions[i]) : C8_Matches(t, k)
          IN  hit(tokens[1]) # hit(tokens[2])

\* the second tokens of the two-token queries C9 compares with
Tokens == {"x", "of", "data", "st", "zh"}

FullNames(output) == {output[i].full_name : i \in DOMAIN output}

\* the last call was search(t1, limit) for a single token t1
C9_SingleToken == last.op = "search" /\ last.keyword \in Tokens

\* C9 (as claimed): for every two tokens t1, t2 and every limit, what
\* search(t1, limit) returned holds every record that search(t1 + " " + t2,
\* limit) can return over the same catalog.
C9_Original ==
    C9_SingleToken =>
        \A t2 \in Tokens :
            FullNames(SearchOutput(functions, index, hashOrder,
                                   last.keyword \o " " \o t2, last.limit))
                \subseteq FullNames(last.output)

\* C9 (amended): the same, for every limit that is at least the number of
\* records matching t1.
C9_SupersetWhenNotCut ==
    (C9_SingleToken /\ last.limit >= Cardinality(Results(index, last.keyword))) =>
        \A t2 \in Tokens :
            FullNames(SearchOutput(functions, index, hashOrder,
                                   last.keyword \o " " \o t2, last.limit))
                \subseteq FullNames(last.output)

\* C9 witness: a single-token search that the limit did not cut returned two
\* records, and a two-token query starting with that token returns one of
\* them only.
C9_Witness ==
    /\ C9_SingleToken
    /\ last.limit >= Cardinality(Results(index, last.keyword))
    /\ Len(last.output) = 2
    /\ \E t2 \in Tokens :
          Cardinality(Results(index, last.keyword \o " " \o t2)) = 1

\* C10 (as claimed): after any number of sequential initialize() calls the
\* catalog and the index are what the first call left, and the parse-then-index
\* sequence has run exactly once.
C10_Original ==
    initCalls >= 1 =>
        /\ functions = first.functions
        /\ index = first.index
        /\ parseRuns = 1
        /\ buildRuns <= 1

-----------------------------------------------------------------------------
(* Properties of a directory with an unreadable document, and of a provider *)
(* that lacks a documented function.                                        *)

\* the .md files of the listing that open() fails on
Unreadable(listing) ==
    {i \in DOMAIN listing : EndsWith(listing[i].filename, ".md") /\ ~listing[i].readable}

\* the listing without its unreadable documents
ReadableOnly(listing) ==
    LET keep(f) == f.readable IN SelectSeq(listing, keep)

\* C12 (as claimed): when a document of the directory cannot be opened,
\* initialize still completes without raising: the registry is initialized,
\* and the catalog holds the records of every readable document and none for
\* the unreadable one.
C12_Original ==
    (initCalls >= 1 /\ Unreadable(docs) # {}) =>
        /\ lastInit # "raised"
        /\ initialized
        /\ functions = parse_all_docs(<<>>, dirExists, ReadableOnly(docs)).functions

\* C13 (as claimed): a call whose reference resolves to a catalog entry while
\* the provider has no callable of the entry's bare name ends as a call of a
\* reference that is missing from the catalog ends.
C13_Original ==
    (last.op = "call" /\ Resolves(last.func_name) /\ last.provider.kind = "absent") =>
        LET missing == call(<<>>, last.func_name, TRUE, last.provider) IN
        /\ last.out.t = missing.t
        /\ IsRaise(last.out)
        /\ last.out.exc = missing.exc

-----------------------------------------------------------------------------
(* Properties of concurrent initialize() calls.                            *)

\* C11 (as claimed): under any interleaving of concurrent initialize() calls
\* the parse-and-index build runs at most once: the index is built at most
\* once and, unless a parse raised, the documents are parsed at most once.
C11_Original ==
    /\ buildRuns <= 1
    /\ (\A t \in Threads : pc[t] # "raised") => parseRuns <= 1

====
